---- MODULE Spec2Model ----
(***************************************************************************)
(* libparse: a parser-combinator engine (base.rs, combinators.rs,          *)
(* chars.rs) and the CSV grammar built on it (csv.rs).                     *)
(*                                                                         *)
(* A parser is a function from an input (a sequence of characters, the     *)
(* &str slice) to a PResult: Ok((remaining input, output)) or Err(Error).  *)
(* Combinators take parsers and return parsers.  Closures handed to a      *)
(* combinator (map functions, predicates) are functions of the output.     *)
(***************************************************************************)
EXTENDS Integers, Sequences, FiniteSets, TLC

\* ----------------------------------------------------------------- bounds
MaxLen == 4          \* longest input text drawn in Init
MaxCells == 4        \* most fields, over all its rows, of a written document
MaxFieldLen == 2     \* longest literal of a written quoted field
MaxArity == 2        \* most fields of the first record a repetition is built for

\* ------------------------------------------------------------- characters
COMMA == ","
DQUOTE == "\""
CR == "\r"
LF == "\n"
NUL == "NUL"         \* '\0'
Text == {"a", "b"}   \* TEXT: characters that are none of COMMA, DQUOTE, CR, LF
Chars == Text \cup {COMMA, DQUOTE, CR, LF}
Input == Seq(Chars)
\* outputs that closures are applied to: a record (Vec<String>), a String,
\* Vec<char> or &str, a char; and the tuples pair makes of them
Output == Seq(Seq(Chars)) \cup Seq(Chars) \cup Chars
Pairs == Output \X Output

Rest(input, n) == SubSeq(input, n + 1, Len(input))

\* ------------------------------------------------------ base.rs: errors
Failure(reason) == [tag |-> "Failure", reason |-> reason]
NoInput == [tag |-> "NoInput"]
Char(ch) == [tag |-> "Char", ch |-> ch]
LineBreak == [tag |-> "LineBreak"]
PredicateCode == [tag |-> "Predicate"]
InvalidInput(expected) == [tag |-> "InvalidInput", expected |-> expected]

Ok(input, output) == [ok |-> TRUE, input |-> input, output |-> output]
Err(error) == [ok |-> FALSE, input |-> error.input, code |-> error.code]

Error_new(input, code) == [input |-> input, code |-> code]
Error_failure(input, reason) == [input |-> input, code |-> Failure(reason)]
is_failure(err) == err.code.tag = "Failure"

\* ------------------------------------------- base.rs: combinator structs
Map(parser, map_fn) ==
  [input \in Input |->
     LET r == parser[input]
     IN  IF r.ok THEN Ok(r.input, map_fn[r.output]) ELSE r]

AndThenMap(first, map_fn) ==
  [input \in Input |->
     LET r == first[input]
     IN  IF r.ok THEN map_fn[r.output][r.input] ELSE r]

Fallback(primary, fallback) ==
  [input \in Input |->
     LET r == primary[input]
     IN  IF r.ok THEN r ELSE fallback[r.input]]

Predicate(parser, predicate, assume_invalid) ==
  [input \in Input |->
     LET r == parser[input]
     IN  IF ~r.ok THEN r
         ELSE IF predicate[r.output] THEN r
         ELSE IF assume_invalid
              THEN Err(Error_failure(input, InvalidInput("unknown")))
              ELSE Err(Error_new(input, PredicateCode))]

iff(parser, predicate) == Predicate(parser, predicate, FALSE)
iff_or_invalid(parser, predicate) == Predicate(parser, predicate, TRUE)

\* ---------------------------------------------------------- combinators.rs
\* pair that leaves the right parser's error where the right parser put it
pair_keeps_position(left_parser, right_parser) ==
  [input \in Input |->
     LET l == left_parser[input]
     IN  IF ~l.ok THEN l
         ELSE LET r == right_parser[l.input]
              IN  IF r.ok THEN Ok(r.input, <<l.output, r.output>>)
                  ELSE r]

pair(left_parser, right_parser) ==
  [input \in Input |->
     LET l == left_parser[input]
     IN  IF ~l.ok THEN l
         ELSE LET r == right_parser[l.input]
              IN  IF r.ok THEN Ok(r.input, <<l.output, r.output>>)
                  ELSE Err(Error_new(input, r.code))]

left_from_pair(left_parser, right_parser) ==
  Map(pair(left_parser, right_parser), [o \in Pairs |-> o[1]])

right_from_pair(left_parser, right_parser) ==
  Map(pair(left_parser, right_parser), [o \in Pairs |-> o[2]])

\* the loop of zero_or_more: input is the input handed to the last attempt,
\* outputs the outputs pushed so far, err the error the loop broke with
RECURSIVE zero_or_more_loop(_, _, _)
zero_or_more_loop(parser, input, outputs) ==
  LET r == parser[input]
  IN  IF r.ok THEN zero_or_more_loop(parser, r.input, Append(outputs, r.output))
      ELSE [input |-> input, outputs |-> outputs, err |-> r]

\* combinators.rs 62-66: the result, from the state the loop ended in
zero_or_more_result(end) ==
  IF is_failure(end.err) THEN end.err
  ELSE Ok(end.err.input, end.outputs)

\* the result of a zero_or_more that ends on any error, hard or not
swallowed_result(end) == Ok(end.err.input, end.outputs)

\* zero_or_more that ends the repetition on any error, hard or not
zero_or_more_swallows(parser) ==
  [input \in Input |->
     swallowed_result(zero_or_more_loop(parser, input, <<>>))]

zero_or_more(parser) ==
  [input \in Input |->
     zero_or_more_result(zero_or_more_loop(parser, input, <<>>))]

\* ------------------------------------------------------------------ chars.rs
END_OF_STRING == Char(NUL)

char(ch) ==
  [input \in Input |->
     IF input = <<>> THEN Err(Error_new(input, END_OF_STRING))
     ELSE IF input[1] = ch THEN Ok(Rest(input, 1), ch)
     ELSE Err(Error_new(input, Char(ch)))]

any_char ==
  [input \in Input |->
     IF input # <<>> THEN Ok(Rest(input, 1), input[1])
     ELSE Err(Error_new(input, END_OF_STRING))]

\* line_break that knows LF only
line_break_lf_only ==
  [input \in Input |->
     IF Len(input) >= 1 /\ input[1] = LF THEN Ok(Rest(input, 1), <<LF>>)
     ELSE Err(Error_new(input, LineBreak))]

line_break ==
  [input \in Input |->
     IF Len(input) >= 1 /\ input[1] = LF THEN Ok(Rest(input, 1), <<LF>>)
     ELSE IF Len(input) >= 2 /\ input[1] = CR /\ input[2] = LF
          THEN Ok(Rest(input, 2), <<CR, LF>>)
     ELSE Err(Error_new(input, LineBreak))]

\* -------------------------------------------------------------------- csv.rs
comma == char(COMMA)
dquote == char(DQUOTE)
is_special(ch) == ch = COMMA \/ ch = DQUOTE \/ ch = CR \/ ch = LF

\* chars.into_iter().collect(): the Vec<char> becomes the String of the
\* same characters
collect == [chars \in Seq(Chars) |-> chars]

\* csv.rs 115: the parser non_escaped repeats
accepted_char == iff(any_char, [ch \in Chars |-> ~is_special(ch)])

non_escaped == Map(zero_or_more(accepted_char), collect)

\* csv.rs 123-125: the parser escaped repeats
char_or_doubled_quote ==
  Fallback(iff(any_char, [ch \in Chars |-> ch # DQUOTE]),
           left_from_pair(dquote, dquote))

\* escaped without the doubled-quote alternative
escaped_no_doubling ==
  Map(right_from_pair(
        dquote,
        left_from_pair(
          zero_or_more(iff(any_char, [ch \in Chars |-> ch # DQUOTE])),
          dquote)),
      collect)

\* escaped that does not ask for the closing quote
escaped_unterminated ==
  Map(right_from_pair(
        dquote,
        zero_or_more(
          Fallback(iff(any_char, [ch \in Chars |-> ch # DQUOTE]),
                   left_from_pair(dquote, dquote)))),
      collect)

escaped ==
  Map(right_from_pair(
        dquote,
        left_from_pair(zero_or_more(char_or_doubled_quote), dquote)),
      collect)

field == Fallback(escaped, non_escaped)

\* the repeated parser of a record that forgets the comma
field_without_comma == field

\* csv.rs 84: the parser record repeats
comma_then_field == right_from_pair(comma, field)

\* csv.rs 86-89: the other fields follow the first in the record
extend_fields(first_field, others) ==
  IF ~others.ok THEN others
  ELSE Ok(others.input, <<first_field>> \o others.output)

\* csv.rs 80-90: what record does with the result of the first field
and_then_fields(f) ==
  IF ~f.ok THEN f
  ELSE extend_fields(f.output, zero_or_more(comma_then_field)[f.input])

\* record without the empty-input restriction
record_allows_empty == [input \in Input |-> and_then_fields(field[input])]

record ==
  [input \in Input |->
     IF Len(input) > 0 THEN and_then_fields(field[input])
     ELSE Err(Error_new(input, NoInput))]

\* csv.rs 28-31: the parser parse_string repeats, for a first record of
\* len fields
line_break_then_record(len) ==
  right_from_pair(line_break,
                  iff_or_invalid(record, [rec \in Seq(Input) |-> Len(rec) = len]))

\* csv.rs 34-45: an InvalidInput failure is reported as missing fields
map_err_more_fields(r) ==
  IF ~r.ok /\ r.code.tag = "Failure" /\ r.code.reason.tag = "InvalidInput"
  THEN Err(Error_failure(r.input, InvalidInput("more fields in this record")))
  ELSE r

\* csv.rs 27 and 46-49: records holds the first record, pushed by the
\* closure of and_then_map, and is extended with the other records
extend_records(first_record, r) ==
  IF ~r.ok THEN r
  ELSE Ok(r.input, <<first_record.output>> \o r.output)

\* parse_records whose later records are filtered with iff
parse_records_recoverable ==
  [input \in Input |->
     extend_records(
       record[input],
       map_err_more_fields(
         AndThenMap(record,
           [first_record \in Seq(Input) |->
              zero_or_more(right_from_pair(
                line_break,
                iff(record,
                    [rec \in Seq(Input) |->
                       Len(rec) = Len(first_record)])))])[input]))]

\* csv.rs 23-49: the first record and the repetition of line_break record,
\* with the error mapping and the extension of the records vector
parse_records ==
  [input \in Input |->
     extend_records(
       record[input],
       map_err_more_fields(
         AndThenMap(record,
           [first_record \in Seq(Input) |->
              zero_or_more(line_break_then_record(Len(first_record)))])[input]))]

\* csv.rs 53-66: the match on the result of line_break at the trailing input
match_trailing(trailing, records, lb) ==
  IF (lb.ok /\ lb.input = <<>>)
       \/ (~lb.ok /\ lb.input = <<>> /\ lb.code = LineBreak)
  THEN Ok(<<>>, records)
  ELSE Err(Error_failure(trailing, InvalidInput("comma or a line break")))

\* csv.rs 49-71: the ? on the records result and the optional line break
optional_line_break(r) ==
  IF ~r.ok THEN r
  ELSE IF Len(r.input) > 0
       THEN match_trailing(r.input, r.output, line_break[r.input])
       ELSE Ok(<<>>, r.output)

\* what parse_string returns when it accepts whatever follows the records
accept_any_trailing(r) == IF ~r.ok THEN r ELSE Ok(<<>>, r.output)

\* parse_string that accepts whatever follows the records
parse_string_any_trailing ==
  [input \in Input |-> accept_any_trailing(parse_records[input])]

parse_string == [input \in Input |-> optional_line_break(parse_records[input])]

\* ------------------------------------------------- parsers under test
\* Parsers of output type char built from the library, as the tests build
\* them: they cover success, a recoverable error at the start of the input,
\* a recoverable error past the start, and a hard Failure at or past it.
ParserNames ==
  {"any_char", "char", "iff", "iff_or_invalid", "right_from_pair",
   "and_then_map", "and_then_invalid"}

ParserOf(name) ==
  CASE name = "any_char" -> any_char
    [] name = "char" -> char("a")
    [] name = "iff" -> iff(any_char, [ch \in Chars |-> ch = "a"])
    [] name = "iff_or_invalid" -> iff_or_invalid(any_char, [ch \in Chars |-> ch # COMMA])
    [] name = "right_from_pair" -> right_from_pair(char(COMMA), char("b"))
    [] name = "and_then_map" -> AndThenMap(char("a"), [o \in Chars |-> char("b")])
    [] name = "and_then_invalid" ->
         AndThenMap(any_char,
                    [o \in Chars |->
                       iff_or_invalid(any_char, [ch \in Chars |-> ch = o])])

\* ---------------------------------------------------------- written texts
RECURSIVE Join(_, _)
Join(seqs, sep) ==
  IF Len(seqs) = 0 THEN <<>>
  ELSE IF Len(seqs) = 1 THEN seqs[1]
  ELSE seqs[1] \o sep \o Join(Tail(seqs), sep)

\* the fields of each row joined by ',', the rows joined by the line break
\* lb, with or without one trailing line break
WriteDocument(rows, lb, trailing) ==
  Join([i \in 1..Len(rows) |-> Join(rows[i], <<COMMA>>)], lb)
    \o (IF trailing THEN lb ELSE <<>>)

\* a '"', then s with each '"' doubled, then a closing '"', then follow
RECURSIVE DoubleQuotes(_)
DoubleQuotes(s) ==
  IF s = <<>> THEN <<>>
  ELSE (IF Head(s) = DQUOTE THEN <<DQUOTE, DQUOTE>> ELSE <<Head(s)>>)
         \o DoubleQuotes(Tail(s))

WriteQuoted(s, follow) == <<DQUOTE>> \o DoubleQuotes(s) \o <<DQUOTE>> \o follow

SeqsUpTo(S, n) == UNION {[1..k -> S] : k \in 0..n}
LineBreaks == {<<LF>>, <<CR, LF>>}
FieldTexts == SeqsUpTo(Text, 1)
Documents ==
  UNION {IF r * n <= MaxCells THEN [1..r -> [1..n -> FieldTexts]] ELSE {} :
           r \in 1..MaxCells, n \in 1..MaxCells}
Literals == SeqsUpTo(Chars, MaxFieldLen)
Followers == {<<>>, <<COMMA>>, <<COMMA, "a">>, <<LF>>, <<CR, LF>>, <<LF, DQUOTE>>}

\* ------------------------------------------------------------------- state
VARIABLES
  input,     \* the text handed to the operation
  written,   \* what the text was written from, if it was written
  op,        \* the operation applied to input ("init": none yet)
  arg,       \* the names of the parsers a generic combinator was built from
  result,    \* the PResult the operation returned
  remaining, \* zero_or_more in steps: the input of the next attempt
  outputs    \* zero_or_more in steps: the outputs pushed so far
vars == <<input, written, op, arg, result, remaining, outputs>>

NoResult == [tag |-> "none"]
NotWritten == [kind |-> "none"]
Inputs == SeqsUpTo(Chars, MaxLen)

Init ==
  /\ op = "init"
  /\ arg = <<>>
  /\ result = NoResult
  /\ remaining = <<>>
  /\ outputs = <<>>
  /\ \/ /\ input \in Inputs
        /\ written = NotWritten
     \/ \E rows \in Documents, lb \in LineBreaks, trailing \in BOOLEAN :
          /\ input = WriteDocument(rows, lb, trailing)
          /\ written = [kind |-> "document", rows |-> rows, lb |-> lb,
                        trailing |-> trailing]
     \/ \E s \in Literals, follow \in Followers :
          /\ input = WriteQuoted(s, follow)
          /\ written = [kind |-> "quoted", s |-> s, follow |-> follow]

ParseString ==
  /\ op = "init"
  /\ op' = "parse_string"
  /\ arg' = <<>>
  /\ result' = parse_string[input]
  /\ UNCHANGED <<input, written, remaining, outputs>>

Record ==
  /\ op = "init"
  /\ op' = "record"
  /\ arg' = <<>>
  /\ result' = record[input]
  /\ UNCHANGED <<input, written, remaining, outputs>>

Field ==
  /\ op = "init"
  /\ op' = "field"
  /\ arg' = <<>>
  /\ result' = field[input]
  /\ UNCHANGED <<input, written, remaining, outputs>>

Escaped ==
  /\ op = "init"
  /\ op' = "escaped"
  /\ arg' = <<>>
  /\ result' = escaped[input]
  /\ UNCHANGED <<input, written, remaining, outputs>>

FallbackOn ==
  \E p \in ParserNames, alt \in ParserNames :
    /\ op = "init"
    /\ op' = "fallback_on"
    /\ arg' = <<p, alt>>
    /\ result' = Fallback(ParserOf(p), ParserOf(alt))[input]
    /\ UNCHANGED <<input, written, remaining, outputs>>

ZeroOrMore ==
  \E p \in ParserNames :
    /\ op = "init"
    /\ op' = "zero_or_more"
    /\ arg' = <<p>>
    /\ result' = zero_or_more(ParserOf(p))[input]
    /\ UNCHANGED <<input, written, remaining, outputs>>

Pair ==
  \E p1 \in ParserNames, p2 \in ParserNames :
    /\ op = "init"
    /\ op' = "pair"
    /\ arg' = <<p1, p2>>
    /\ result' = pair(ParserOf(p1), ParserOf(p2))[input]
    /\ UNCHANGED <<input, written, remaining, outputs>>

Next ==
  \/ ParseString
  \/ Record
  \/ Field
  \/ Escaped
  \/ FallbackOn
  \/ ZeroOrMore
  \/ Pair

Spec == Init /\ [][Next]_vars

\* ------------------------------------------- zero_or_more, step by step
\* the parsers the grammar hands to zero_or_more
RepeatedNames ==
  {<<"comma_then_field">>, <<"accepted_char">>, <<"char_or_doubled_quote">>}
    \cup {<<"line_break_then_record", len>> : len \in 1..MaxArity}

RepeatedOf(a) ==
  CASE a[1] = "comma_then_field" -> comma_then_field
    [] a[1] = "accepted_char" -> accepted_char
    [] a[1] = "char_or_doubled_quote" -> char_or_doubled_quote
    [] a[1] = "line_break_then_record" -> line_break_then_record(a[2])

\* combinators.rs 50-51: zero_or_more is called on input
Enter ==
  \E a \in RepeatedNames :
    /\ op = "init"
    /\ op' = "repeat"
    /\ arg' = a
    /\ remaining' = input
    /\ outputs' = <<>>
    /\ UNCHANGED <<input, written, result>>

\* combinators.rs 53-57: an attempt succeeds and the loop goes on
Repeat ==
  /\ op = "repeat"
  /\ RepeatedOf(arg)[remaining].ok
  /\ remaining' = RepeatedOf(arg)[remaining].input
  /\ outputs' = Append(outputs, RepeatedOf(arg)[remaining].output)
  /\ UNCHANGED <<input, written, op, arg, result>>

\* combinators.rs 58-66: an attempt fails, the loop breaks and zero_or_more
\* returns
Break ==
  /\ op = "repeat"
  /\ ~RepeatedOf(arg)[remaining].ok
  /\ op' = "repeated"
  /\ result' = zero_or_more_result(
                 [input |-> remaining, outputs |-> outputs,
                  err |-> RepeatedOf(arg)[remaining]])
  /\ UNCHANGED <<input, written, arg, remaining, outputs>>

Repetition ==
  \/ Enter
  \/ Repeat
  \/ Break

\* a repetition is under way: Enter can be taken in "init", and exactly one
\* of Repeat and Break in "repeat"
Running == op \in {"init", "repeat"}

\* every call runs to completion before returning (single-threaded,
\* synchronous): a step that can be taken is taken. This is
\* WF_vars(Repetition) with ENABLED <<Repetition>>_vars written as Running.
Progress == []<>(~Running) \/ []<><<Repetition>>_vars

TerminationSpec == Init /\ [][Repetition]_vars /\ Progress

\* the steps compute what zero_or_more computes
StepsAgree ==
  op = "repeated" => result = zero_or_more(RepeatedOf(arg))[input]

TypeOK ==
  /\ op \in {"init", "parse_string", "record", "field", "escaped",
             "fallback_on", "zero_or_more", "pair", "repeat", "repeated"}
  /\ op \notin {"init", "repeat"}
       => result.ok \in BOOLEAN /\ result.input \in Input

\* ------------------------------------------------------ fallback_on claims
Primary == ParserOf(arg[1])[input]
Alternative == ParserOf(arg[2])[input]

\* C1: when the primary parser fails with a hard Failure, fallback_on
\* returns that same hard Failure and the alternative is not run.
C1_HardFailureNotRecovered ==
  (op = "fallback_on" /\ ~Primary.ok /\ is_failure(Primary))
    => result = Primary

\* C2: when the primary parser fails recoverably, fallback_on returns
\* exactly what the alternative returns on the original input.
C2_FallbackFromOriginalInput ==
  (op = "fallback_on" /\ ~Primary.ok /\ ~is_failure(Primary))
    => result = Alternative

\* ----------------------------------------------------- zero_or_more claims
\* the successive applications of parser from x, up to the first error
RECURSIVE Applications(_, _)
Applications(parser, x) ==
  LET r == parser[x]
  IN  IF r.ok THEN <<r>> \o Applications(parser, r.input) ELSE <<r>>

Repetitions == Applications(ParserOf(arg[1]), input)
LastAttempt == Repetitions[Len(Repetitions)]
LastAttemptInput ==
  IF Len(Repetitions) = 1 THEN input
  ELSE Repetitions[Len(Repetitions) - 1].input
MatchedOutputs ==
  [i \in 1..(Len(Repetitions) - 1) |-> Repetitions[i].output]

\* C5: when the repetition ends on a recoverable error, zero_or_more
\* succeeds with the outputs of the successful repetitions and the input
\* that was handed to the failed attempt as remaining input.
C5_ConsumesOnlyMatched ==
  (op = "zero_or_more" /\ ~is_failure(LastAttempt))
    => result = Ok(LastAttemptInput, MatchedOutputs)

\* C6: zero_or_more returns an error exactly when an application of the
\* parser returned a hard Failure, and then it returns that Failure.
C6_HardFailurePoisons ==
  op = "zero_or_more"
    => /\ is_failure(LastAttempt) => result = LastAttempt
       /\ ~result.ok => is_failure(LastAttempt)

C6_Witness ==
  /\ op = "zero_or_more"
  /\ Len(Repetitions) > 1
  /\ is_failure(LastAttempt)
  /\ ~result.ok

\* ----------------------------------------------------- parse_string claims
\* the first record after the first one, each preceded by a line break,
\* whose field count differs from n: the input at the line break before it
\* and the input at its first character
RECURSIVE Offending(_, _)
Offending(n, rem) ==
  LET lb == line_break[rem]
      rec == record[lb.input]
  IN  IF ~lb.ok THEN [found |-> FALSE]
      ELSE IF ~rec.ok THEN [found |-> FALSE]
      ELSE IF Len(rec.output) # n
           THEN [found |-> TRUE, at_break |-> rem, at_record |-> lb.input]
      ELSE Offending(n, rec.input)

FirstRecord == record[input]
OffendingRecord ==
  IF FirstRecord.ok THEN Offending(Len(FirstRecord.output), FirstRecord.input)
  ELSE [found |-> FALSE]

MoreFields(at) ==
  Err(Error_failure(at, InvalidInput("more fields in this record")))

\* C3: a later record whose field count differs from the first record's
\* makes parse_string return the hard Failure "more fields in this record";
\* every successful result has at least one record and all its records
\* have the field count of the first.
C3_ArityEnforced ==
  op = "parse_string"
    => /\ OffendingRecord.found
            => /\ ~result.ok
               /\ result.code = Failure(InvalidInput("more fields in this record"))
       /\ result.ok
            => /\ Len(result.output) >= 1
               /\ \A i \in 1..Len(result.output) :
                    Len(result.output[i]) = Len(result.output[1])

C3_Witness ==
  /\ op = "parse_string"
  /\ OffendingRecord.found
  /\ ~result.ok
  /\ is_failure(result)

\* C4 as claimed: the arity error is positioned at the first character of
\* the offending record, after the line break that precedes it.
C4_ErrorAtRecordStart ==
  (op = "parse_string" /\ OffendingRecord.found)
    => result = MoreFields(OffendingRecord.at_record)

\* C4 amended: the arity error is positioned at the line break that
\* separates the offending record from the previous record.
C4_ErrorAtLineBreak ==
  (op = "parse_string" /\ OffendingRecord.found)
    => result = MoreFields(OffendingRecord.at_break)

C4_Witness ==
  /\ op = "parse_string"
  /\ OffendingRecord.found
  /\ result.input = OffendingRecord.at_break
  /\ result.input # OffendingRecord.at_record

LastRow == written.rows[Len(written.rows)]

\* C7 as claimed: every written document of rows of equal field count,
\* empty fields included, parses back to exactly its rows.
C7_RoundTripAnyRows ==
  (op = "parse_string" /\ written.kind = "document")
    => result = Ok(<<>>, written.rows)

\* C7 amended: a written document parses back to exactly its rows when it
\* ends with a line break, or when its last row is not a single empty field.
C7_RoundTrip ==
  (op = "parse_string" /\ written.kind = "document"
     /\ (written.trailing \/ LastRow # <<<<>>>>))
    => result = Ok(<<>>, written.rows)

C7_Witness ==
  /\ op = "parse_string"
  /\ written.kind = "document"
  /\ Len(written.rows) >= 2
  /\ \E i \in 1..Len(written.rows) : <<>> \in {written.rows[i][j] : j \in 1..Len(written.rows[i])}
  /\ result.ok
  /\ result.output = written.rows

\* C8: a quoted text written from the literal s is parsed by escaped and
\* by field to exactly s, consuming exactly the quoted text.
C8_EscapedRoundTrip ==
  (op \in {"escaped", "field"} /\ written.kind = "quoted")
    => result = Ok(written.follow, written.s)

C8_Witness ==
  /\ op = "escaped"
  /\ written.kind = "quoted"
  /\ DQUOTE \in {written.s[i] : i \in 1..Len(written.s)}
  /\ result.ok
  /\ result.output = written.s

RecordsParsed == parse_records[input]

\* C9: once the record repetition has ended without error, parse_string
\* succeeds with empty remaining input exactly when the remainder is empty
\* or one line break, and otherwise returns the hard Failure "comma or a
\* line break" positioned at the remainder.
C9_TrailingInput ==
  op = "parse_string"
    => /\ RecordsParsed.ok
            => IF RecordsParsed.input = <<>> \/ RecordsParsed.input \in LineBreaks
               THEN result = Ok(<<>>, RecordsParsed.output)
               ELSE result = Err(Error_failure(RecordsParsed.input,
                                   InvalidInput("comma or a line break")))
       /\ result.ok => result.input = <<>>

C9_Witness ==
  /\ op = "parse_string"
  /\ RecordsParsed.ok
  /\ RecordsParsed.input # <<>>
  /\ RecordsParsed.input \notin LineBreaks
  /\ ~result.ok

\* C10: record fails on the empty input, with NoInput positioned at it,
\* and on no other input; field succeeds on the empty input.
C10_EmptyRecord ==
  /\ op = "record"
       => IF input = <<>>
          THEN result = Err(Error_new(<<>>, NoInput))
          ELSE result.ok /\ Len(result.output) >= 1
  /\ (op = "field" /\ input = <<>>) => result = Ok(<<>>, <<>>)

C10_Witness ==
  /\ op = "record"
  /\ input = <<>>
  /\ ~result.ok

\* -------------------------------------------------------------- pair claims
LeftResult == ParserOf(arg[1])[input]
RightResult == ParserOf(arg[2])[LeftResult.input]

\* C11: when the first parser succeeds and the second fails on the
\* remainder, pair returns an error positioned at pair's own input with
\* exactly the second parser's code, hard or recoverable as it was; an
\* error of the first parser is returned unchanged.
C11_PairErrorAtOwnStart ==
  op = "pair"
    => /\ ~LeftResult.ok => result = LeftResult
       /\ (LeftResult.ok /\ ~RightResult.ok)
            => /\ ~result.ok
               /\ result.input = input
               /\ result.code = RightResult.code
               /\ is_failure(result) = is_failure(RightResult)

C11_Witness ==
  /\ op = "pair"
  /\ LeftResult.ok
  /\ ~RightResult.ok
  /\ is_failure(RightResult)
  /\ RightResult.input # input
  /\ result.input = input

\* ----------------------------------------------------------- escaped claims
StartsWithQuote == input # <<>> /\ input[1] = DQUOTE

\* the text after an opening quote holds a closing quote: a '"' that, once
\* the doubled quotes before it are paired off, is not followed by a '"'
RECURSIVE HasClosingQuote(_)
HasClosingQuote(s) ==
  IF s = <<>> THEN FALSE
  ELSE IF s[1] # DQUOTE THEN HasClosingQuote(Rest(s, 1))
  ELSE IF Len(s) >= 2 /\ s[2] = DQUOTE THEN HasClosingQuote(Rest(s, 2))
  ELSE TRUE

\* C12 as claimed: escaped succeeds on every input that begins with '"',
\* and every failure is recoverable on an input that does not.
C12_FailsOnlyWithoutQuote ==
  op = "escaped"
    => /\ StartsWithQuote => result.ok
       /\ ~result.ok => ~is_failure(result) /\ ~StartsWithQuote

\* C12 amended: escaped succeeds exactly on the inputs that begin with '"'
\* and whose opening quote is closed; every failure is recoverable and
\* occurs on an input that does not begin with '"' or whose opening quote
\* is never closed.
C12_FailsWithoutQuoteOrUnclosed ==
  op = "escaped"
    => /\ result.ok <=> (StartsWithQuote /\ HasClosingQuote(Rest(input, 1)))
       /\ ~result.ok => ~is_failure(result)

C12_Witness ==
  /\ op = "escaped"
  /\ StartsWithQuote
  /\ Len(input) > 1
  /\ ~result.ok
  /\ ~is_failure(result)

\* ------------------------------------------------------- termination claim
\* C13: every repetition of the grammar returns after finitely many
\* attempts, because each successful attempt of a repeated parser leaves
\* strictly less input than it was handed.
C13_Termination ==
  /\ [][Repeat => Len(remaining') < Len(remaining)]_vars
  /\ <>(op = "repeated")

C13_Witness ==
  /\ op = "repeated"
  /\ arg[1] = "line_break_then_record"
  /\ Len(outputs) >= 2
  /\ result.ok
====
